---- MODULE Spec2Model ----
(***************************************************************************)
(* Model of the location-intelligence service: the candidate scoring and   *)
(* alternative-site search of GoogleMapsService, the three-tier analysis   *)
(* of OpenAIService, and the analyze / getAnalysis route handlers with     *)
(* their bounded in-memory cache and best-effort durable store.            *)
(*                                                                         *)
(* Numbers.  A Google rating carries one decimal, so a rating is kept in   *)
(* tenths (43 is 4.3 stars).  A score under construction is kept in        *)
(* hundredths (5000 is the base score 50), which makes every term of       *)
(* calculateLocationScore an exact integer; MathRound then rounds half up  *)
(* as Math.round does.                                                     *)
(***************************************************************************)
EXTENDS Integers, Sequences, FiniteSets, TLC

VARIABLES
    \* calculateLocationScore applied to one place
    place, score, scorePc,
    \* findAlternativeLocations applied to one set of upstream answers
    searchResults, count, alternatives, queries, altPc,
    \* the analyze route: analysisCache (a Map, in insertion order), the
    \* analyses table of the durable store, the identifiers handed out so
    \* far, process.env, and the requests in flight
    cache, store, nextId, env, req, nAnalyze, nGet,
    \* calculateAveragePrice applied to one price tier, and the competitor
    \* builder applied to one nearby-search result and one set of answers of
    \* the place-details lookups
    priceTier, averagePrice, nearbyList, lookups, profiles, compPc,
    \* generateLocationAnalysis applied to one set of gathered data and one
    \* answer of the text-generation service
    gathered, llmAnswer, analysisOut, analysisPc

vars == <<place, score, scorePc, searchResults, count, alternatives, queries, altPc,
          cache, store, nextId, env, req, nAnalyze, nGet,
          priceTier, averagePrice, nearbyList, lookups, profiles, compPc,
          gathered, llmAnswer, analysisOut, analysisPc>>

scoreVars == <<place, score, scorePc>>
altVars == <<searchResults, count, alternatives, queries, altPc>>
routeVars == <<cache, store, nextId, env, req, nAnalyze, nGet>>
compVars == <<priceTier, averagePrice, nearbyList, lookups, profiles, compPc>>
analysisVars == <<gathered, llmAnswer, analysisOut, analysisPc>>

----------------------------------------------------------------------------
(* Bounds of the model *)

MaxReviews == 105
MaxCount == 3
\* analyze requests served one after another by one slot, and getAnalysis
\* requests served, in one behaviour
MaxAnalyze == 1
MaxGet == 1
\* places in one nearby-search result given to the competitor builder
MaxNearby == 11
\* competitor profiles handed to generateLocationAnalysis
MaxCompetitors == 20

----------------------------------------------------------------------------
(* JavaScript values *)

\* an optional field that is absent (rating?, user_ratings_total?, price_level?)
undefined == -1

\* truthiness of an optional number: undefined and 0 are falsy
Truthy(v) == v # undefined /\ v # 0

Min(a, b) == IF a < b THEN a ELSE b
Max(a, b) == IF a > b THEN a ELSE b

\* Math.round on a value in hundredths: the nearest integer, halves go up
MathRound(x) == (x + 50) \div 100

----------------------------------------------------------------------------
(* GoogleMapsService.calculateLocationScore *)

relevantTypes == {"restaurant", "cafe", "lodging", "tourist_attraction"}

\* if (place.rating) score += (place.rating - 2.5) * 10
RatingFactor(p) ==
    IF Truthy(p.rating) THEN (p.rating - 25) * 100 ELSE 0

\* if (place.user_ratings_total) score += Math.min(total / 100, 1) * 15
ReviewFactor(p) ==
    IF Truthy(p.user_ratings_total)
    THEN Min(p.user_ratings_total, 100) * 15
    ELSE 0

\* the price tier tested for truthiness, which skips tier 0
PriceFactor_Truthy(p) ==
    IF Truthy(p.price_level) THEN (3 - p.price_level) * 500 ELSE 0

\* if (place.price_level !== undefined) score += (3 - place.price_level) * 5
PriceFactor(p) ==
    IF p.price_level # undefined THEN (3 - p.price_level) * 500 ELSE 0

\* if (place.types.some(type => relevantTypes.includes(type))) score += 10
TypeFactor(p) ==
    IF p.types \cap relevantTypes # {} THEN 1000 ELSE 0

RawScore(p) ==
    5000 + RatingFactor(p) + ReviewFactor(p) + PriceFactor(p) + TypeFactor(p)

\* the score returned without the final clamp
calculateLocationScore_NoClamp(p) == MathRound(RawScore(p))

calculateLocationScore(p) == Max(0, Min(100, MathRound(RawScore(p))))

----------------------------------------------------------------------------
(* Places the nearby search can return *)

Ratings == {undefined} \cup 0..50
ReviewCounts == {undefined} \cup 0..MaxReviews
PriceLevels == {undefined} \cup 0..4
TypeTags == {{}, {"store"}, {"cafe", "store"}}

Places ==
    [name : {"p"}, rating : Ratings, user_ratings_total : ReviewCounts,
     price_level : PriceLevels, types : TypeTags]

NoPlace ==
    [name |-> "none", rating |-> undefined, user_ratings_total |-> undefined,
     price_level |-> undefined, types |-> {}]

----------------------------------------------------------------------------
(* GoogleMapsService.getNearbyPlaces and findAlternativeLocations *)

\* The nearby-search upstream answers with a status and a result list, or the
\* fetch itself fails ("TRANSPORT").  getNearbyPlaces turns every non-OK
\* answer and every failure into the empty list.
getNearbyPlaces(answer) ==
    IF answer.status # "OK" THEN <<>> ELSE answer.results

searchPoints == <<"North", "South", "East", "West", "Northeast", "Southwest">>

\* place.types.some(...) raises a TypeError on a place that has no types
ScoreThrows(p) == "types" \notin DOMAIN p

\* alternatives.push({name, address, coordinates, score, reasons}); address and
\* coordinates are copied from the place and the reasons are advisory text,
\* nothing reads them: the candidate keeps the name and the score
Candidate(p) == [name |-> p.name, score |-> calculateLocationScore(p)]

\* for (const place of places.slice(0, 2)) { if (length >= count) break; push }
\* threw: scoring a place raised, which leaves the rest of the try block
RECURSIVE PushPlaces(_, _, _)
PushPlaces(places, alts, cnt) ==
    IF places = <<>> \/ Len(alts) >= cnt
    THEN [alts |-> alts, threw |-> FALSE]
    ELSE IF ScoreThrows(Head(places))
         THEN [alts |-> alts, threw |-> TRUE]
         ELSE PushPlaces(Tail(places), Append(alts, Candidate(Head(places))), cnt)

Slice(s, n) == SubSeq(s, 1, Min(n, Len(s)))

\* the loop without its try/catch around a getNearbyPlaces that raises: the
\* first failing point ends the pass
RECURSIVE SearchLoop_AbortOnFailure(_, _, _, _, _)
SearchLoop_AbortOnFailure(answers, i, alts, asked, cnt) ==
    IF i > Len(searchPoints)
    THEN [alternatives |-> alts, queries |-> asked]
    ELSE LET pushed == PushPlaces(Slice(answers[i].results, 2), alts, cnt)
             asked2 == Append(asked, searchPoints[i])
         IN  IF answers[i].status # "OK" \/ pushed.threw \/ Len(pushed.alts) >= cnt
             THEN [alternatives |-> pushed.alts, queries |-> asked2]
             ELSE SearchLoop_AbortOnFailure(answers, i + 1, pushed.alts, asked2, cnt)

\* for (const point of searchPoints) { try { ... } catch { console.warn } }
\* answers[i] is what the upstream gives for searchPoints[i]
RECURSIVE SearchLoop(_, _, _, _, _)
SearchLoop(answers, i, alts, asked, cnt) ==
    IF i > Len(searchPoints)
    THEN [alternatives |-> alts, queries |-> asked]
    ELSE LET places == getNearbyPlaces(answers[i])
             pushed == PushPlaces(Slice(places, 2), alts, cnt)
             asked2 == Append(asked, searchPoints[i])
         IN  IF ~pushed.threw /\ Len(pushed.alts) >= cnt
             THEN [alternatives |-> pushed.alts, queries |-> asked2]
             ELSE SearchLoop(answers, i + 1, pushed.alts, asked2, cnt)

\* Array.prototype.sort with (a, b) => b.score - a.score: stable, descending
RECURSIVE InsertByScore(_, _)
InsertByScore(a, sorted) ==
    IF sorted = <<>> THEN <<a>>
    ELSE IF Head(sorted).score < a.score
         THEN <<a>> \o sorted
         ELSE <<Head(sorted)>> \o InsertByScore(a, Tail(sorted))

RECURSIVE SortByScore(_)
SortByScore(s) ==
    IF s = <<>> THEN <<>>
    ELSE InsertByScore(s[Len(s)], SortByScore(SubSeq(s, 1, Len(s) - 1)))

\* the candidates returned in the order they were collected
findAlternativeLocations_NoSort(answers, cnt) ==
    LET found == SearchLoop(answers, 1, <<>>, <<>>, cnt)
    IN  [alternatives |-> Slice(found.alternatives, cnt),
         queries |-> found.queries]

findAlternativeLocations(answers, cnt) ==
    LET found == SearchLoop(answers, 1, <<>>, <<>>, cnt)
    IN  [alternatives |-> Slice(SortByScore(found.alternatives), cnt),
         queries |-> found.queries]

\* Places and upstream answers used to exercise the search
placeA == [name |-> "A", rating |-> 45, user_ratings_total |-> 150,
           price_level |-> 2, types |-> {"cafe"}]
placeB == [name |-> "B", rating |-> 30, user_ratings_total |-> 40,
           price_level |-> undefined, types |-> {"store"}]
placeC == [name |-> "C", rating |-> undefined, user_ratings_total |-> undefined,
           price_level |-> 4, types |-> {}]
\* a result without a types array
placeD == [name |-> "D", rating |-> 50, user_ratings_total |-> 10,
           price_level |-> undefined]

Ok(results) == [status |-> "OK", results |-> results]
Failed(status) == [status |-> status, results |-> <<>>]

NearbyAnswers ==
    { Ok(<<>>), Failed("ZERO_RESULTS"), Failed("TRANSPORT"),
      Ok(<<placeC, placeA, placeB>>), Ok(<<placeB>>), Ok(<<placeD, placeA>>) }

----------------------------------------------------------------------------
(* JavaScript values of unknown shape (the text-generation service's JSON). *)
(* Each kind keeps its payload under its own field name.                    *)

Undef == [t |-> "undefined"]
Null == [t |-> "null"]
NaN == [t |-> "NaN"]
Num(n) == [t |-> "number", n |-> n]
Str(s) == [t |-> "string", s |-> s]
\* a template literal: its constant text and interpolated values, never empty
Tpl(parts) == [t |-> "string", parts |-> parts]
Arr(a) == [t |-> "array", a |-> a]
\* an array of string literals
StrArr(a) == Arr([i \in 1..Len(a) |-> Str(a[i])])
Obj(o) == [t |-> "object", o |-> o]

\* the operand of ||, ! and if
Falsy(x) ==
    \/ x.t \in {"undefined", "null", "NaN"}
    \/ x.t = "number" /\ x.n = 0
    \/ x.t = "string" /\ "s" \in DOMAIN x /\ x.s = ""

\* a || b
OrElse(a, b) == IF Falsy(a) THEN b ELSE a

\* x.f raises a TypeError when x is null or undefined
PropThrows(x) == x.t \in {"undefined", "null"}

\* x.f on a value that is not null or undefined: only an object has the fields
Prop(x, f) ==
    IF x.t = "object" /\ f \in DOMAIN x.o THEN x.o[f] ELSE Undef

\* x?.f
OptProp(x, f) == IF PropThrows(x) THEN Undef ELSE Prop(x, f)

IsNumber(x) == x.t = "number"

----------------------------------------------------------------------------
(* OpenAIService *)

\* estimateRevenue, getAverageRevenue, estimateTAM: tables keyed by
\* category.toLowerCase(), with a default for any other category
baseRevenue(category) ==
    CASE category = "restaurant" -> 800000
      [] category = "cafe" -> 400000
      [] category = "hotel" -> 1500000
      [] category = "hostel" -> 600000
      [] OTHER -> 600000

\* Math.round(base * Math.max(0.5, Math.min(2.0, footfall / 1000))); every
\* base is a multiple of 1000, so the product is a whole number
estimateRevenue(category, footfall) ==
    (baseRevenue(category) \div 1000) * Max(500, Min(2000, footfall))

getAverageRevenue(category) ==
    CASE category = "restaurant" -> 750000
      [] category = "cafe" -> 350000
      [] category = "hotel" -> 1200000
      [] category = "hostel" -> 500000
      [] OTHER -> 500000

estimateTAM(category) ==
    CASE category = "restaurant" -> 50000000
      [] category = "cafe" -> 25000000
      [] category = "hotel" -> 100000000
      [] category = "hostel" -> 30000000
      [] OTHER -> 40000000

fallbackCompetitionLevel(data) ==
    IF Len(data.competitors) > 5 THEN "High"
    ELSE IF Len(data.competitors) > 2 THEN "Medium" ELSE "Low"

\* the score without its floor of 30
fallbackViabilityScore_NoFloor(data) ==
    85 - (Len(data.competitors) * 5) + Min(Len(data.nearbyPlaces) * 2, 20)

fallbackViabilityScore(data) ==
    Max(30, 85 - (Len(data.competitors) * 5) + Min(Len(data.nearbyPlaces) * 2, 20))

generateFallbackAnalysis(location, category, data) ==
    LET competitionLevel == fallbackCompetitionLevel(data)
        viabilityScore == fallbackViabilityScore(data)
        footfallEstimate == data.footfallEstimate
    IN Obj([
        summary |-> Tpl(<<"Location analysis for", category, location,
                          Len(data.competitors), Len(data.nearbyPlaces)>>),
        strengths |-> StrArr(<<
            IF footfallEstimate > 1000 THEN "High foot traffic area"
                                       ELSE "Moderate foot traffic",
            IF Len(data.nearbyPlaces) > 10 THEN "Well-established commercial area"
                                           ELSE "Developing area",
            IF Len(data.competitors) < 3 THEN "Low competition"
                                         ELSE "Established market">>),
        weaknesses |-> StrArr(<<
            IF Len(data.competitors) > 5 THEN "High competition"
                                         ELSE "Market validation needed",
            IF footfallEstimate < 500 THEN "Limited foot traffic"
                                      ELSE "Traffic analysis required">>),
        opportunities |-> StrArr(<<"Market expansion potential",
                                "Customer base development",
                                "Service differentiation">>),
        threats |-> StrArr(<<
            IF competitionLevel = "High" THEN "Intense competition"
                                         ELSE "New market entrants",
            "Economic fluctuations", "Changing consumer preferences">>),
        metrics |-> Obj([
            viabilityScore |-> Num(viabilityScore),
            competitionLevel |-> Str(competitionLevel),
            marketSaturation |-> Str(competitionLevel),
            expectedRevenue |-> Num(estimateRevenue(category, footfallEstimate)),
            avgRevenue |-> Num(getAverageRevenue(category)),
            tam |-> Num(estimateTAM(category))]),
        recommendation |-> Str(
            IF viabilityScore > 70 THEN "Recommend"
            ELSE IF viabilityScore > 50 THEN "Caution" ELSE "Not Recommended"),
        keyInsights |-> Arr(<<
            Tpl(<<"Competition level:", competitionLevel>>),
            Tpl(<<"Estimated daily footfall:", footfallEstimate>>),
            Tpl(<<"Viability score:", viabilityScore>>),
            Tpl(<<"Market saturation:", competitionLevel>>)>>),
        actionItems |-> StrArr(<<"Conduct detailed market research",
                              "Analyze competitor pricing",
                              "Validate customer demand",
                              "Assess operational costs">>)])

(* A body that is not JSON is prose.  The text-mining tier reads it through  *)
(* regular expressions and substring tests, so a text is modelled by what    *)
(* those can find in it:                                                     *)
(*   score       the digits matched by /(\d+)\/100|(\d+)%|score[:\s]*(\d+)/i *)
(*               (undefined when nothing matches)                            *)
(*   competition, saturation   the level word that follows the keyword       *)
(*               ("" when there is none)                                     *)
(*   phrases     which of the recommendation phrases occur                   *)
(*   financial   whether the pattern built for a financial metric matches    *)
(*   bullets     the bullet lines, each with the keywords it contains        *)

\* extractScore: parseInt of the matched digits, or null
extractScore(text) ==
    IF text.score = undefined THEN Null ELSE Num(text.score)

Capitalize(level) ==
    CASE level = "low" -> "Low" [] level = "medium" -> "Medium"
      [] level = "high" -> "High"

\* extractLevel: the matched level capitalised, or 'Medium'
extractLevel(text, type) ==
    IF text[type] = "" THEN Str("Medium") ELSE Str(Capitalize(text[type]))

\* text.toLowerCase().includes(phrase): 'recommend' also occurs inside
\* 'strongly recommend' and 'not recommended'
Includes(text, phrase) ==
    IF phrase = "recommend"
    THEN text.phrases \cap {"recommend", "strongly recommend", "not recommended"} # {}
    ELSE phrase \in text.phrases

extractRecommendation(text) ==
    IF Includes(text, "strongly recommend") THEN Str("Strong Recommend")
    ELSE IF Includes(text, "recommend") THEN Str("Recommend")
    ELSE IF Includes(text, "caution") THEN Str("Caution")
    ELSE IF Includes(text, "not recommended") THEN Str("Not Recommended")
    ELSE Str("Recommend")

\* extractFinancialMetric: the pattern is built in a template literal, where
\* \s and \d lose their backslash, so its group (d+) captures letters d and
\* parseInt of them is NaN; without a match the result is null
extractFinancialMetric(text, metric) ==
    IF text.financial THEN NaN ELSE Null

\* extractListItems: the bullet lines that contain one of the keywords, at
\* most the first five
RECURSIVE FilterBullets(_, _)
FilterBullets(bullets, keywords) ==
    IF bullets = <<>> THEN <<>>
    ELSE IF Head(bullets).keywords \cap keywords # {}
         THEN <<Str(Head(bullets).content)>> \o FilterBullets(Tail(bullets), keywords)
         ELSE FilterBullets(Tail(bullets), keywords)

extractListItems(text, keywords) == Slice(FilterBullets(text.bullets, keywords), 5)

parseTextResponse(text, location, category, data) ==
    Obj([
        summary |-> Tpl(<<"Analysis for", category, "location at", location>>),
        strengths |-> Arr(extractListItems(text, {"strength", "advantage", "positive"})),
        weaknesses |-> Arr(extractListItems(text, {"weakness", "challenge", "concern"})),
        opportunities |-> Arr(extractListItems(text, {"opportunity", "potential"})),
        threats |-> Arr(extractListItems(text, {"threat", "risk", "competition"})),
        metrics |-> Obj([
            viabilityScore |-> OrElse(extractScore(text), Num(75)),
            competitionLevel |-> OrElse(extractLevel(text, "competition"), Str("Medium")),
            marketSaturation |-> OrElse(extractLevel(text, "saturation"), Str("Medium")),
            expectedRevenue |-> OrElse(extractFinancialMetric(text, "expectedRevenue"), Num(0)),
            avgRevenue |-> OrElse(extractFinancialMetric(text, "avgRevenue"), Num(0)),
            tam |-> OrElse(extractFinancialMetric(text, "tam"), Num(0))]),
        recommendation |-> OrElse(extractRecommendation(text), Str("Recommend")),
        keyInsights |-> Arr(Slice(extractListItems(text, {"insight", "key", "important"}), 5)),
        actionItems |-> Arr(Slice(extractListItems(text,
                                {"action", "next", "step", "recommend"}), 5))])

(* What the chat-completion call does: it throws, or it answers with a      *)
(* content that is empty, or with a body that JSON.parse accepts (json is   *)
(* the parsed value) or rejects (text is the prose).                        *)
LLMThrows == [kind |-> "throws"]
LLMEmpty == [kind |-> "empty"]
LLMJson(value) == [kind |-> "json", json |-> value]
LLMText(text) == [kind |-> "text", text |-> text]

\* which tier produces the analysis
AnalysisTier(answer) ==
    CASE answer.kind \in {"throws", "empty"} -> "fallback"
      [] answer.kind = "json" -> "strict"
      [] answer.kind = "text" -> "text-mined"

\* a body that does not parse as JSON is answered by the local fallback
generateLocationAnalysis_SkipTextTier(location, category, data, answer) ==
    IF answer.kind = "json" THEN answer.json
    ELSE generateFallbackAnalysis(location, category, data)

generateLocationAnalysis(location, category, data, answer) ==
    CASE answer.kind \in {"throws", "empty"} ->
            generateFallbackAnalysis(location, category, data)
      [] answer.kind = "json" -> answer.json
      [] answer.kind = "text" ->
            parseTextResponse(answer.text, location, category, data)

----------------------------------------------------------------------------
(* analyze route: competitor profiles *)

\* a numeric field that is null (rating, price_level of a profile)
null == -2

\* a ?? b on optional numbers
Nullish(a, b) == IF a \in {undefined, null} THEN b ELSE a

\* a || b on strings, an absent string being ""
OrStr(a, b) == IF a = "" THEN b ELSE a

\* a tier without an amount is answered with 0
calculateAveragePrice_ZeroForNone(priceLevel) ==
    IF priceLevel \in 1..4 THEN <<400, 800, 1500, 2500>>[priceLevel] ELSE 0

\* calculateAveragePrice: !priceLevel covers null, undefined and 0
calculateAveragePrice(priceLevel) ==
    IF priceLevel \in {null, undefined, 0} THEN null
    ELSE CASE priceLevel = 1 -> 400
           [] priceLevel = 2 -> 800
           [] priceLevel = 3 -> 1500
           [] priceLevel = 4 -> 2500
           [] OTHER -> null

\* p.user_ratings_total || 0
ReviewsOrZero(p) ==
    IF Truthy(p.user_ratings_total) THEN p.user_ratings_total ELSE 0

\* nearbyPlaces.reduce((sum, p) => sum + (p.user_ratings_total || 0), 0)
RECURSIVE footfallOf(_)
footfallOf(places) ==
    IF places = <<>> THEN 0
    ELSE ReviewsOrZero(Head(places)) + footfallOf(Tail(places))

\* [...nearbyPlaces].sort((a, b) => (b.total || 0) - (a.total || 0)): stable
RECURSIVE InsertByReviews(_, _)
InsertByReviews(p, sorted) ==
    IF sorted = <<>> THEN <<p>>
    ELSE IF ReviewsOrZero(Head(sorted)) < ReviewsOrZero(p)
         THEN <<p>> \o sorted
         ELSE <<Head(sorted)>> \o InsertByReviews(p, Tail(sorted))

RECURSIVE SortByReviews(_)
SortByReviews(s) ==
    IF s = <<>> THEN <<>>
    ELSE InsertByReviews(s[Len(s)], SortByReviews(SubSeq(s, 1, Len(s) - 1)))

topNearbyOf(nearbyPlaces) == Slice(SortByReviews(nearbyPlaces), 10)

\* getPlaceDetails raises on a non-OK status and on a transport failure
DetailsThrow(answer) == answer.status # "OK"

\* the profile of a place whose details were fetched (the try branch); the
\* details request asks for no website, phone or url field
EnrichedProfile(p, details) ==
    [name |-> OrStr(details.name, OrStr(p.name, "Unknown")),
     address |-> OrStr(details.formatted_address, OrStr(p.vicinity, "Unknown address")),
     rating |-> Nullish(details.rating, Nullish(p.rating, null)),
     user_ratings_total |->
         Nullish(details.user_ratings_total, Nullish(p.user_ratings_total, 0)),
     price_level |-> Nullish(details.price_level, Nullish(p.price_level, null)),
     website |-> Null,
     phone |-> Null,
     google_url |-> Null,
     footfall |->
         Nullish(details.user_ratings_total, Nullish(p.user_ratings_total, 0)),
     average_price_for_2 |->
         calculateAveragePrice(Nullish(details.price_level, Nullish(p.price_level, null)))]

\* the profile built from the nearby-search fields alone (the catch branch)
BasicProfile(p) ==
    [name |-> OrStr(p.name, "Unknown"),
     address |-> OrStr(p.vicinity, "Unknown address"),
     rating |-> Nullish(p.rating, null),
     user_ratings_total |-> Nullish(p.user_ratings_total, 0),
     price_level |-> Nullish(p.price_level, null),
     website |-> Null,
     phone |-> Null,
     google_url |-> Null,
     footfall |-> Nullish(p.user_ratings_total, 0),
     average_price_for_2 |-> calculateAveragePrice(Nullish(p.price_level, null))]

\* details of a place without place_id are null: every details?.x is undefined
NoDetails ==
    [name |-> "", formatted_address |-> "", rating |-> undefined,
     user_ratings_total |-> undefined, price_level |-> undefined]

\* one item of the Promise.all: answers maps a place_id to the upstream answer
CompetitorProfile(p, answers) ==
    IF p.place_id = "" THEN EnrichedProfile(p, NoDetails)
    ELSE IF DetailsThrow(answers[p.place_id]) THEN BasicProfile(p)
         ELSE EnrichedProfile(p, answers[p.place_id].result)

\* the places whose lookup failed are left out of the list
buildCompetitors_DropFailed(nearbyPlaces, answers) ==
    LET kept == SelectSeq(topNearbyOf(nearbyPlaces),
                          LAMBDA p : p.place_id = "" \/ ~DetailsThrow(answers[p.place_id]))
    IN  [i \in 1..Len(kept) |-> CompetitorProfile(kept[i], answers)]

buildCompetitors(nearbyPlaces, answers) ==
    LET top == topNearbyOf(nearbyPlaces)
    IN  [i \in 1..Len(top) |-> CompetitorProfile(top[i], answers)]

----------------------------------------------------------------------------
(* analyze route: report, cache and durable store *)

MAX_CACHE == 50

\* new Date().toISOString() while request id is being served
TimeOf(id) == [t |-> "string", iso |-> id]

\* analysis.summary raises a TypeError when the analysis is null or undefined
AssembleThrows(analysis) == PropThrows(analysis)

\* const report = { id: analysisId, ... }
assembleReport(id, r, analysis) ==
    [id |-> id,
     location |-> r.location,
     category |-> r.category,
     summary |-> OrElse(Prop(analysis, "summary"), Str("No summary available.")),
     strengths |-> OrElse(Prop(analysis, "strengths"), Arr(<<>>)),
     weaknesses |-> OrElse(Prop(analysis, "weaknesses"), Arr(<<>>)),
     opportunities |-> OrElse(Prop(analysis, "opportunities"), Arr(<<>>)),
     threats |-> OrElse(Prop(analysis, "threats"), Arr(<<>>)),
     recommendation |->
         OrElse(Prop(analysis, "recommendation"), Str("No recommendation available.")),
     coordinates |-> r.coordinates,
     alternatives |-> r.alternatives,
     metrics |->
        [viabilityScore |-> OptProp(Prop(analysis, "metrics"), "viabilityScore"),
         competitionLevel |-> OptProp(Prop(analysis, "metrics"), "competitionLevel"),
         marketSaturation |-> OptProp(Prop(analysis, "metrics"), "marketSaturation"),
         avgRevenue |-> OptProp(Prop(analysis, "metrics"), "avgRevenue"),
         expectedRevenue |-> OptProp(Prop(analysis, "metrics"), "expectedRevenue"),
         tam |-> OptProp(Prop(analysis, "metrics"), "tam"),
         competitorCount |-> Num(Len(r.nearbyPlaces)),
         footfall |-> Num(r.footfallEstimate)],
     competitors |-> r.competitors,
     createdAt |-> TimeOf(id)]

\* const dbRecord = { id: analysisId, ... }
dbRecordOf(id, r, analysis, report) ==
    [id |-> id,
     location |-> r.location,
     category |-> r.category,
     summary |-> Prop(analysis, "summary"),
     metrics |-> report.metrics,
     recommendation |-> Prop(analysis, "recommendation"),
     coordinates |-> r.coordinates,
     alternatives |-> r.alternatives,
     created_at |-> TimeOf(id),
     user_id |-> Null]

\* Map.has, Map.get, Map.set, Map.delete and the first key of Map.keys()
CacheHas(c, key) == \E i \in 1..Len(c) : c[i].key = key
CacheGet(c, key) == c[CHOOSE i \in 1..Len(c) : c[i].key = key].value
CacheSet(c, key, value) ==
    IF CacheHas(c, key)
    THEN [i \in 1..Len(c) |-> IF c[i].key = key THEN [key |-> key, value |-> value]
                                                ELSE c[i]]
    ELSE Append(c, [key |-> key, value |-> value])
CacheDelete(c, key) == SelectSeq(c, LAMBDA e : e.key # key)
OldestKey(c) == c[1].key

\* on overflow the newest key is deleted instead of the oldest
cacheInsert_EvictNewest(c, id, report) ==
    LET added == CacheSet(c, id, report)
    IN  IF Len(added) > MAX_CACHE THEN CacheDelete(added, added[Len(added)].key)
        ELSE added

\* the report is added and nothing is evicted
cacheInsert_NoEvict(c, id, report) == CacheSet(c, id, report)

\* analysisCache.set(analysisId, report);
\* if (analysisCache.size > MAX_CACHE) analysisCache.delete(oldestKey)
cacheInsert(c, id, report) ==
    LET added == CacheSet(c, id, report)
    IN  IF Len(added) > MAX_CACHE THEN CacheDelete(added, OldestKey(added))
        ELSE added

\* the analyses table: the rows with a given id
Rows(id) == {row \in store : row.id = id}

----------------------------------------------------------------------------
(* analyze route: requests.  A handler runs from one await to the next in    *)
(* one step; pc names the call it is waiting for.                            *)

Free == [kind |-> "none", pc |-> "idle"]

Respond(r, status, body) ==
    [pc |-> "done", resp |-> [status |-> status, body |-> body]] @@ r

\* the catch of handleAnalyze: 500 with the identifier and the message
Fail500(r, message) ==
    Respond(r, 500, [id |-> r.id, success |-> FALSE, error |-> "Analysis failed",
                     message |-> message])

Called(r, call) == Append(r.calls, call)

\* the identifier is drawn and the geocoder is called before the body is
\* validated
StartAnalyze_ValidateLate(s, location, category) ==
    /\ req[s].pc \in {"idle", "done"}
    /\ nAnalyze[s] < MaxAnalyze
    /\ nAnalyze' = [nAnalyze EXCEPT ![s] = @ + 1]
    /\ nextId' = nextId + 1
    /\ LET r == [kind |-> "analyze", location |-> location, category |-> category,
                 id |-> nextId, calls |-> <<"geocode">>]
       IN  req' = [req EXCEPT ![s] =
              IF location = "" \/ category = ""
              THEN Respond(r, 400, [error |-> "Location and category are required"])
              ELSE IF ~env.GOOGLE_MAPS_SERVER_KEY
              THEN Fail500(r, Str("GOOGLE_MAPS_SERVER_KEY environment variable is missing"))
              ELSE IF ~env.OPENAI_API_KEY
              THEN Fail500(r, Str("OPENAI_API_KEY environment variable is missing"))
              ELSE [pc |-> "geocode"] @@ r]
    /\ UNCHANGED <<cache, store, env, nGet>>
    /\ UNCHANGED <<scoreVars, altVars, compVars, analysisVars>>

\* the identifier of the first request is handed out again
StartAnalyze_ReuseId(s, location, category) ==
    /\ req[s].pc \in {"idle", "done"}
    /\ nAnalyze[s] < MaxAnalyze
    /\ nAnalyze' = [nAnalyze EXCEPT ![s] = @ + 1]
    /\ nextId' = nextId + 1
    /\ req' = [req EXCEPT ![s] =
          [kind |-> "analyze", location |-> location, category |-> category,
           id |-> 1, pc |-> "geocode", calls |-> <<"geocode">>]]
    /\ UNCHANGED <<cache, store, env, nGet>>
    /\ UNCHANGED <<scoreVars, altVars, compVars, analysisVars>>

\* handleAnalyze up to its first await: validation, randomUUID, the key checks
\* and the geocoding request
StartAnalyze(s, location, category) ==
    /\ req[s].pc \in {"idle", "done"}
    /\ nAnalyze[s] < MaxAnalyze
    /\ nAnalyze' = [nAnalyze EXCEPT ![s] = @ + 1]
    /\ LET r == [kind |-> "analyze", location |-> location, category |-> category,
                 id |-> undefined, calls |-> <<>>]
       IN  IF location = "" \/ category = ""
           THEN /\ req' = [req EXCEPT ![s] =
                      Respond(r, 400, [error |-> "Location and category are required"])]
                /\ UNCHANGED nextId
           ELSE /\ nextId' = nextId + 1
                /\ LET r1 == [id |-> nextId] @@ r
                   IN  req' = [req EXCEPT ![s] =
                          IF ~env.GOOGLE_MAPS_SERVER_KEY
                          THEN Fail500(r1, Str("GOOGLE_MAPS_SERVER_KEY environment variable is missing"))
                          ELSE IF ~env.OPENAI_API_KEY
                          THEN Fail500(r1, Str("OPENAI_API_KEY environment variable is missing"))
                          ELSE [pc |-> "geocode", calls |-> Called(r1, "geocode")] @@ r1]
    /\ UNCHANGED <<cache, store, env, nGet>>
    /\ UNCHANGED <<scoreVars, altVars, compVars, analysisVars>>

\* geocodeAddress: raises unless the status is OK and there is a result
GeocodeThrows(answer) == answer.status # "OK" \/ answer.results = <<>>

\* a failed geocoding is swallowed and the pipeline goes on at the origin
GeocodeReturns_Swallow(s, answer) ==
    /\ req[s].pc = "geocode"
    /\ req' = [req EXCEPT ![s] =
          [pc |-> "nearby",
           geocode |-> IF GeocodeThrows(answer) THEN "failed" ELSE answer.status,
           coordinates |-> [lat |-> 0, lng |-> 0],
           calls |-> Called(@, "nearby")] @@ @]
    /\ UNCHANGED <<cache, store, nextId, env, nAnalyze, nGet>>
    /\ UNCHANGED <<scoreVars, altVars, compVars, analysisVars>>

\* the geocoding answer arrives; on success the nearby search is requested
GeocodeReturns(s, answer) ==
    /\ req[s].pc = "geocode"
    /\ req' = [req EXCEPT ![s] =
          IF GeocodeThrows(answer)
          THEN Fail500([geocode |-> "failed"] @@ @,
                       Tpl(<<"Geocoding failed:", answer.status>>))
          ELSE [pc |-> "nearby", geocode |-> answer.status,
                coordinates |-> answer.results[1],
                calls |-> Called(@, "nearby")] @@ @]
    /\ UNCHANGED <<cache, store, nextId, env, nAnalyze, nGet>>
    /\ UNCHANGED <<scoreVars, altVars, compVars, analysisVars>>

\* the nearby places arrive: footfall estimate, then findAlternativeLocations
NearbyReturns(s, answer) ==
    /\ req[s].pc = "nearby"
    /\ LET nearbyPlaces == getNearbyPlaces(answer)
       IN  req' = [req EXCEPT ![s] =
              [pc |-> "alternatives", nearbyFailed |-> answer.status # "OK",
               nearbyPlaces |-> nearbyPlaces,
               footfallEstimate |-> footfallOf(nearbyPlaces),
               calls |-> Called(@, "alternatives")] @@ @]
    /\ UNCHANGED <<cache, store, nextId, env, nAnalyze, nGet>>
    /\ UNCHANGED <<scoreVars, altVars, compVars, analysisVars>>

\* findAlternativeLocations (count defaults to 5) is done; the details of the
\* top nearby places are requested together (Promise.all)
AlternativesReturn(s, answers) ==
    /\ req[s].pc = "alternatives"
    /\ req' = [req EXCEPT ![s] =
          [pc |-> "details",
           alternatives |-> findAlternativeLocations(answers, 5).alternatives,
           calls |-> Called(@, "details")] @@ @]
    /\ UNCHANGED <<cache, store, nextId, env, nAnalyze, nGet>>
    /\ UNCHANGED <<scoreVars, altVars, compVars, analysisVars>>

\* every details lookup has settled; the text-generation service is called
DetailsReturn(s, answers) ==
    /\ req[s].pc = "details"
    /\ req' = [req EXCEPT ![s] =
          [pc |-> "openai",
           competitors |-> buildCompetitors(@.nearbyPlaces, answers),
           calls |-> Called(@, "openai")] @@ @]
    /\ UNCHANGED <<cache, store, nextId, env, nAnalyze, nGet>>
    /\ UNCHANGED <<scoreVars, altVars, compVars, analysisVars>>

\* generateLocationAnalysis returns: the report is assembled and cached, and
\* the insert into the durable store is requested
AnalysisReturns(s, answer) ==
    /\ req[s].pc = "openai"
    /\ LET r == req[s]
           analysis == generateLocationAnalysis(r.location, r.category, r, answer)
           report == assembleReport(r.id, r, analysis)
       IN  IF AssembleThrows(analysis)
           THEN /\ req' = [req EXCEPT ![s] =
                      Fail500([analysis |-> analysis, tier |-> AnalysisTier(answer)] @@ r,
                              Str("Cannot read properties of null"))]
                /\ UNCHANGED <<cache>>
           ELSE /\ cache' = cacheInsert(cache, r.id, report)
                /\ req' = [req EXCEPT ![s] =
                      [pc |-> "insert", analysis |-> analysis,
                       tier |-> AnalysisTier(answer), report |-> report,
                       dbRecord |-> dbRecordOf(r.id, r, analysis, report),
                       calls |-> Called(r, "insert")] @@ r]
    /\ UNCHANGED <<store, nextId, env, nAnalyze, nGet>>
    /\ UNCHANGED <<scoreVars, altVars, compVars, analysisVars>>

\* the insert settles: it stored the row, it returned an error, or it raised
InsertReturns(s, outcome) ==
    /\ req[s].pc = "insert"
    /\ store' = IF outcome = "stored" THEN store \cup {req[s].dbRecord} ELSE store
    /\ req' = [req EXCEPT ![s] =
          IF outcome = "throws"
          THEN Fail500([insert |-> outcome] @@ @, Str("fetch failed"))
          ELSE Respond([insert |-> outcome] @@ @, 200, @.report)]
    /\ UNCHANGED <<cache, nextId, env, nAnalyze, nGet>>
    /\ UNCHANGED <<scoreVars, altVars, compVars, analysisVars>>

\* handleGetAnalysis up to its await: the id check and the cache lookup
StartGet(s, id) ==
    /\ req[s].pc \in {"idle", "done"}
    /\ nGet < MaxGet
    /\ nGet' = nGet + 1
    /\ LET r == [kind |-> "get", id |-> id, calls |-> <<>>,
                 cachedAtStart |-> id # undefined /\ CacheHas(cache, id)]
       IN  req' = [req EXCEPT ![s] =
              IF id = undefined
              THEN Respond(r, 400, [error |-> "Analysis ID is required"])
              ELSE IF CacheHas(cache, id)
              THEN Respond(r, 200, CacheGet(cache, id))
              ELSE [pc |-> "select", calls |-> <<"select">>] @@ r]
    /\ UNCHANGED <<cache, store, nextId, env, nAnalyze>>
    /\ UNCHANGED <<scoreVars, altVars, compVars, analysisVars>>

\* what select('*').eq('id', id).single() can do: return the row, return an
\* error because no row matches, return an error of the store, or raise
SelectOutcomes(id) ==
    (IF Rows(id) # {} THEN {"row"} ELSE {"no row"}) \cup {"error", "throws"}

\* an error result of the select is answered like a raised one
SelectReturns_ErrorIs500(s, outcome) ==
    /\ req[s].pc = "select"
    /\ outcome \in SelectOutcomes(req[s].id)
    /\ LET r == [select |-> outcome, inStore |-> Rows(req[s].id) # {},
                 inCache |-> CacheHas(cache, req[s].id)] @@ req[s]
       IN  req' = [req EXCEPT ![s] =
              IF outcome \in {"throws", "error"}
              THEN IF CacheHas(cache, r.id)
                   THEN Respond(r, 200, CacheGet(cache, r.id))
                   ELSE Respond(r, 500, [error |-> "Failed to fetch analysis"])
              ELSE IF outcome = "no row"
              THEN IF CacheHas(cache, r.id)
                   THEN Respond(r, 200, CacheGet(cache, r.id))
                   ELSE Respond(r, 404, [error |-> "Analysis not found"])
              ELSE Respond(r, 200, CHOOSE row \in Rows(r.id) : TRUE)]
    /\ UNCHANGED <<cache, store, nextId, env, nAnalyze, nGet>>
    /\ UNCHANGED <<scoreVars, altVars, compVars, analysisVars>>

\* the select settles
SelectReturns(s, outcome) ==
    /\ req[s].pc = "select"
    /\ outcome \in SelectOutcomes(req[s].id)
    /\ LET r == [select |-> outcome, inStore |-> Rows(req[s].id) # {},
                 inCache |-> CacheHas(cache, req[s].id)] @@ req[s]
       IN  req' = [req EXCEPT ![s] =
              IF outcome = "throws"
              THEN IF CacheHas(cache, r.id)
                   THEN Respond(r, 200, CacheGet(cache, r.id))
                   ELSE Respond(r, 500, [error |-> "Failed to fetch analysis"])
              ELSE IF outcome \in {"error", "no row"}
              THEN IF CacheHas(cache, r.id)
                   THEN Respond(r, 200, CacheGet(cache, r.id))
                   ELSE Respond(r, 404, [error |-> "Analysis not found"])
              ELSE Respond(r, 200, CHOOSE row \in Rows(r.id) : TRUE)]
    /\ UNCHANGED <<cache, store, nextId, env, nAnalyze, nGet>>
    /\ UNCHANGED <<scoreVars, altVars, compVars, analysisVars>>

----------------------------------------------------------------------------
(* Inputs of the analyze route *)

\* PDF route: its own module-level Map ("const analysisCache = new Map()"),
\* which no code of the route ever writes to
pdfAnalysisCache == <<>>

\* the report the PDF is rendered from when the row comes from the store;
\* the metrics are spread last
formattedAnalysis(row) ==
    row.metrics @@
    [id |-> row.id, location |-> row.location, category |-> row.category,
     summary |-> row.summary, recommendation |-> row.recommendation,
     alternatives |-> row.alternatives, competitors |-> Undef,
     timestamp |-> row.created_at]

\* the PDF handler up to its await: the id check and the lookup in its cache
StartPdf(s, id) ==
    /\ req[s].pc = "idle"
    /\ LET r == [kind |-> "pdf", id |-> id, calls |-> <<>>]
       IN  req' = [req EXCEPT ![s] =
              IF id = undefined
              THEN Respond(r, 400, [success |-> FALSE, error |-> "Missing analysis ID"])
              ELSE IF CacheHas(pdfAnalysisCache, id)
              THEN Respond(r, 200, [pdf |-> CacheGet(pdfAnalysisCache, id)])
              ELSE [pc |-> "pdfselect", calls |-> <<"select">>] @@ r]
    /\ UNCHANGED <<cache, store, nextId, env, nAnalyze, nGet>>
    /\ UNCHANGED <<scoreVars, altVars, compVars, analysisVars>>

\* the select of the PDF handler settles; inCache records whether the analyze
\* route holds the report in its cache at that moment
PdfSelectReturns(s, outcome) ==
    /\ req[s].pc = "pdfselect"
    /\ outcome \in SelectOutcomes(req[s].id)
    /\ LET r == [select |-> outcome, inStore |-> Rows(req[s].id) # {},
                 inCache |-> CacheHas(cache, req[s].id)] @@ req[s]
       IN  req' = [req EXCEPT ![s] =
              IF outcome = "throws"
              THEN Respond(r, 500, [success |-> FALSE, error |-> "Failed to generate PDF"])
              ELSE IF outcome \in {"error", "no row"}
              THEN IF CacheHas(pdfAnalysisCache, r.id)
                   THEN Respond(r, 200, [pdf |-> CacheGet(pdfAnalysisCache, r.id)])
                   ELSE Respond(r, 404, [success |-> FALSE, error |-> "Analysis not found"])
              ELSE Respond(r, 200,
                           [pdf |-> formattedAnalysis(CHOOSE row \in Rows(r.id) : TRUE)])]
    /\ UNCHANGED <<cache, store, nextId, env, nAnalyze, nGet>>
    /\ UNCHANGED <<scoreVars, altVars, compVars, analysisVars>>

Bodies ==
    { <<"MG Road, Bangalore", "cafe">>, <<"", "cafe">>, <<"MG Road, Bangalore", "">> }

GeocodeAnswers ==
    { [status |-> "OK", results |-> <<[lat |-> 1297, lng |-> 7759]>>],
      [status |-> "OK", results |-> <<>>],
      [status |-> "ZERO_RESULTS", results |-> <<>>],
      [status |-> "TRANSPORT", results |-> <<>>] }

Nearby(id, reviews, price) ==
    [name |-> id, place_id |-> id, vicinity |-> "MG Road", rating |-> 42,
     user_ratings_total |-> reviews, price_level |-> price, types |-> {"cafe"}]

RouteNearbyAnswers ==
    { Failed("REQUEST_DENIED"), Failed("TRANSPORT"),
      Ok(<<Nearby("h1", 10, 2), Nearby("h2", 150, undefined), Nearby("h3", 40, 0)>>) }

RouteAlternativeAnswers ==
    { <<Failed("TRANSPORT"), Ok(<<placeC, placeA, placeB>>), Ok(<<placeB>>),
        Ok(<<placeD, placeA>>), Ok(<<>>), Ok(<<placeA>>)>> }

Details(name, reviews, price) ==
    [status |-> "OK",
     result |-> [name |-> name, formatted_address |-> "MG Road, Bengaluru",
                 rating |-> 44, user_ratings_total |-> reviews, price_level |-> price]]

DetailsFailed == [status |-> "NOT_FOUND"]

RouteDetailAnswers ==
    { [id \in {"h1", "h2", "h3"} |-> Details(id, undefined, undefined)],
      ("h1" :> Details("Cafe One", 500, 3)) @@ ("h2" :> DetailsFailed)
          @@ ("h3" :> Details("", 40, undefined)) }

plainText ==
    [score |-> undefined, competition |-> "", saturation |-> "", phrases |-> {},
     financial |-> FALSE, bullets |-> <<>>]

richText ==
    [score |-> 250, competition |-> "high", saturation |-> "low",
     phrases |-> {"not recommended"}, financial |-> TRUE,
     bullets |-> <<[content |-> "Strong footfall is an advantage",
                    keywords |-> {"advantage"}],
                   [content |-> "Rising rents are a risk", keywords |-> {"risk"}]>>]

completeJson ==
    Obj([summary |-> Str("Executive summary of location viability"),
         strengths |-> StrArr(<<"key advantages">>),
         weaknesses |-> StrArr(<<"potential challenges">>),
         opportunities |-> StrArr(<<"market opportunities">>),
         threats |-> StrArr(<<"competitive threats">>),
         metrics |-> Obj([viabilityScore |-> Num(75),
                          competitionLevel |-> Str("Medium"),
                          marketSaturation |-> Str("Medium"),
                          expectedRevenue |-> Num(15000000),
                          avgRevenue |-> Num(12000000),
                          tam |-> Num(500000000)]),
         recommendation |-> Str("Recommend"),
         keyInsights |-> StrArr(<<"critical insight">>),
         actionItems |-> StrArr(<<"specific next step">>)])

\* an object that leaves fields out, and one whose metrics are not numbers
sparseJson == Obj([summary |-> Str("Looks promising")])
looseJson ==
    Obj([summary |-> Str(""),
         metrics |-> Obj([viabilityScore |-> Str("high"), expectedRevenue |-> Null,
                          tam |-> Num(0)]),
         recommendation |-> Str("Recommend")])

\* every kind of answer, for the analysis taken alone
LLMAnswers ==
    { LLMThrows, LLMEmpty, LLMText(plainText), LLMText(richText),
      LLMJson(Null), LLMJson(Num(42)), LLMJson(completeJson), LLMJson(sparseJson),
      LLMJson(looseJson) }

\* one answer of each kind, for the route
RouteLLMAnswers ==
    { LLMThrows, LLMEmpty, LLMText(richText),
      LLMJson(Null), LLMJson(completeJson), LLMJson(sparseJson) }

InsertOutcomes == {"stored", "error", "throws"}

\* a report left in the cache by an earlier request: one served while the
\* nearby search and the text-generation service were down
earlierRequest ==
    [kind |-> "analyze", location |-> "Old Town", category |-> "cafe",
     coordinates |-> [lat |-> 1300, lng |-> 7700], nearbyPlaces |-> <<>>,
     footfallEstimate |-> 0, alternatives |-> <<>>, competitors |-> <<>>]

earlierAnalysis == generateFallbackAnalysis("Old Town", "cafe", earlierRequest)

earlierReport(id) == assembleReport(id, earlierRequest, earlierAnalysis)

earlierRow(id) == dbRecordOf(id, earlierRequest, earlierAnalysis, earlierReport(id))

\* the cache after n earlier requests, the oldest first
Filled(n) == [i \in 1..n |-> [key |-> i, value |-> earlierReport(i)]]

\* the rows of the earlier requests whose insert succeeded: the first one
StoredOf(n) == {earlierRow(i) : i \in {j \in 1..n : j = 1}}

\* the requests in flight: one handleAnalyze and one handleGetAnalysis, and
\* a second handleAnalyze where requests are served concurrently
AnalyzeSlot == "analyze"
GetSlot == "get"
AnalyzeSlots == {AnalyzeSlot, "analyze2"}
PdfSlot == "pdf"
Slots == AnalyzeSlots \cup {GetSlot, PdfSlot}

\* identifiers a getAnalysis request asks for: none, one never handed out (0),
\* the two oldest, and the ones handed out in this behaviour
GetIds == {undefined, 0, 1, 2} \cup (MAX_CACHE + 1)..(nextId - 1)

RouteIdle ==
    /\ cache = <<>>
    /\ store = {}
    /\ nextId = 1
    /\ env = [GOOGLE_MAPS_SERVER_KEY |-> TRUE, OPENAI_API_KEY |-> TRUE]
    /\ req = [s \in Slots |-> Free]
    /\ nAnalyze = [s \in Slots |-> 0]
    /\ nGet = 0

----------------------------------------------------------------------------
(* Specification SpecScore: calculateLocationScore on every place *)

ScoreIdle == place = NoPlace /\ score = undefined /\ scorePc = "idle"
AltIdle ==
    /\ searchResults = <<>>
    /\ count = 0
    /\ alternatives = <<>>
    /\ queries = <<>>
    /\ altPc = "idle"

CompIdle ==
    /\ priceTier = undefined
    /\ averagePrice = undefined
    /\ nearbyList = <<>>
    /\ lookups = <<>>
    /\ profiles = <<>>
    /\ compPc = "idle"

AnalysisIdle ==
    /\ gathered = [competitors |-> <<>>, nearbyPlaces |-> <<>>, footfallEstimate |-> 0]
    /\ llmAnswer = LLMThrows
    /\ analysisOut = Undef
    /\ analysisPc = "idle"

InitScore ==
    /\ place \in Places
    /\ score = undefined
    /\ scorePc = "call"
    /\ AltIdle
    /\ RouteIdle
    /\ CompIdle
    /\ AnalysisIdle

Score ==
    /\ scorePc = "call"
    /\ score' = calculateLocationScore(place)
    /\ scorePc' = "done"
    /\ UNCHANGED <<place, altVars, routeVars, compVars, analysisVars>>

NextScore == Score

SpecScore == InitScore /\ [][NextScore]_vars

----------------------------------------------------------------------------
(* Specification SpecAlt: findAlternativeLocations on every combination of  *)
(* upstream answers at the six search points                                *)

InitAlt ==
    /\ searchResults \in [1..Len(searchPoints) -> NearbyAnswers]
    /\ count \in 0..MaxCount
    /\ alternatives = <<>>
    /\ queries = <<>>
    /\ altPc = "call"
    /\ ScoreIdle
    /\ RouteIdle
    /\ CompIdle
    /\ AnalysisIdle

FindAlternatives ==
    /\ altPc = "call"
    /\ LET out == findAlternativeLocations(searchResults, count)
       IN  /\ alternatives' = out.alternatives
           /\ queries' = out.queries
    /\ altPc' = "done"
    /\ UNCHANGED <<searchResults, count, scoreVars, routeVars, compVars, analysisVars>>

NextAlt == FindAlternatives

SpecAlt == InitAlt /\ [][NextAlt]_vars

----------------------------------------------------------------------------
(* Specification SpecCompetitors: calculateAveragePrice on every price tier, *)
(* and the competitor builder on nearby-search results of every length up   *)
(* to MaxNearby with every subset of the place-details lookups failing      *)

\* the price tiers calculateAveragePrice is given: null, absent, 0, the four
\* tiers of the table, and tiers beyond it
PriceTiers == {null, undefined} \cup 0..6

\* the review count of the i-th place of a nearby-search result
ReviewsAt(pattern, i) ==
    CASE pattern = "rising" -> i * 10
      [] pattern = "falling" -> (MaxNearby + 2 - i) * 10
      [] pattern = "mixed" ->
            CASE i % 4 = 0 -> undefined
              [] i % 4 = 1 -> 150
              [] i % 4 = 2 -> 0
              [] OTHER -> 40

\* a price tier 0..5, or none
PriceAt(i) == IF i % 7 = 0 THEN undefined ELSE (i % 7) - 1

\* the i-th place: every fifth has no name, every sixth no place_id
NearbyAt(pattern, i) ==
    [name |-> IF i % 5 = 0 THEN "" ELSE ToString(i),
     place_id |-> IF i % 6 = 0 THEN "" ELSE ToString(i),
     vicinity |-> "MG Road", rating |-> 42,
     user_ratings_total |-> ReviewsAt(pattern, i),
     price_level |-> PriceAt(i), types |-> {"cafe"}]

NearbyLists ==
    { [i \in 1..n |-> NearbyAt(pattern, i)] : n \in 0..MaxNearby,
                                              pattern \in {"rising", "falling", "mixed"} }

\* what the place-details lookup of the i-th place returns when it succeeds:
\* nothing beyond address and rating, or a name, a review count and a price
\* tier of its own
DetailsAt(shape, i) ==
    IF shape = "bare" THEN Details("", undefined, undefined)
    ELSE Details("Cafe", (i * 37) % 200, PriceAt(i + 3))

\* the answers of the lookups of a list: the lookups of the places in
\* `failing` fail, the others succeed
LookupsOf(list, failing, shape) ==
    [id \in {list[i].place_id : i \in 1..Len(list)} \ {""} |->
        LET i == CHOOSE j \in 1..Len(list) : list[j].place_id = id
        IN  IF i \in failing THEN DetailsFailed ELSE DetailsAt(shape, i)]

\* either calculateAveragePrice is about to be called, or the builder is
InitCompetitors ==
    /\ averagePrice = undefined
    /\ profiles = <<>>
    /\ \/ /\ priceTier \in PriceTiers
          /\ compPc = "price"
          /\ nearbyList = <<>>
          /\ lookups = <<>>
       \/ /\ priceTier = undefined
          /\ compPc = "build"
          /\ nearbyList \in NearbyLists
          /\ \E failing \in SUBSET (1..Len(nearbyList)) :
                \E shape \in {"bare", "fresh"} :
                    lookups = LookupsOf(nearbyList, failing, shape)
    /\ ScoreIdle
    /\ AltIdle
    /\ RouteIdle
    /\ AnalysisIdle

AveragePrice ==
    /\ compPc = "price"
    /\ averagePrice' = calculateAveragePrice(priceTier)
    /\ compPc' = "priced"
    /\ UNCHANGED <<priceTier, nearbyList, lookups, profiles>>
    /\ UNCHANGED <<scoreVars, altVars, routeVars, analysisVars>>

BuildCompetitors ==
    /\ compPc = "build"
    /\ profiles' = buildCompetitors(nearbyList, lookups)
    /\ compPc' = "done"
    /\ UNCHANGED <<priceTier, averagePrice, nearbyList, lookups>>
    /\ UNCHANGED <<scoreVars, altVars, routeVars, analysisVars>>

NextCompetitors == AveragePrice \/ BuildCompetitors

SpecCompetitors == InitCompetitors /\ [][NextCompetitors]_vars

----------------------------------------------------------------------------
(* Specification SpecAnalysis: generateLocationAnalysis on every number of  *)
(* competitors and of nearby places and every kind of answer of the         *)
(* text-generation service                                                  *)

\* the data argument: c competitor profiles, n nearby places, their footfall
GatheredData ==
    { [location |-> "MG Road, Bangalore", category |-> category,
       competitors |-> [i \in 1..c |-> BasicProfile(NearbyAt("mixed", i))],
       nearbyPlaces |-> [i \in 1..n |-> NearbyAt("mixed", i)],
       footfallEstimate |-> footfall] :
          category \in {"cafe", "bookshop"}, c \in 0..MaxCompetitors,
          n \in 0..MaxNearby, footfall \in {0, 200, 1500} }

InitAnalysis ==
    /\ gathered \in GatheredData
    /\ llmAnswer \in LLMAnswers
    /\ analysisOut = Undef
    /\ analysisPc = "call"
    /\ ScoreIdle
    /\ AltIdle
    /\ RouteIdle
    /\ CompIdle

Analyse ==
    /\ analysisPc = "call"
    /\ analysisOut' = generateLocationAnalysis(gathered.location, gathered.category,
                                               gathered, llmAnswer)
    /\ analysisPc' = "done"
    /\ UNCHANGED <<gathered, llmAnswer>>
    /\ UNCHANGED <<scoreVars, altVars, routeVars, compVars>>

NextAnalysis == Analyse

SpecAnalysis == InitAnalysis /\ [][NextAnalysis]_vars

----------------------------------------------------------------------------
(* Specification Spec: the analyze route.  One handleAnalyze and one         *)
(* handleGetAnalysis can be in flight together; the cache starts empty or    *)
(* as MAX_CACHE earlier requests left it.                                    *)

Init ==
    /\ \E n \in {0, MAX_CACHE} :
          /\ cache = Filled(n)
          /\ store = StoredOf(n)
          /\ nextId = n + 1
    /\ env \in { [GOOGLE_MAPS_SERVER_KEY |-> TRUE, OPENAI_API_KEY |-> TRUE],
                 [GOOGLE_MAPS_SERVER_KEY |-> FALSE, OPENAI_API_KEY |-> TRUE],
                 [GOOGLE_MAPS_SERVER_KEY |-> TRUE, OPENAI_API_KEY |-> FALSE] }
    /\ req = [s \in Slots |-> Free]
    /\ nAnalyze = [s \in Slots |-> 0]
    /\ nGet = 0
    /\ ScoreIdle
    /\ AltIdle
    /\ CompIdle
    /\ AnalysisIdle

Next ==
    \/ \E body \in Bodies : StartAnalyze(AnalyzeSlot, body[1], body[2])
    \/ \E answer \in GeocodeAnswers : GeocodeReturns(AnalyzeSlot, answer)
    \/ \E answer \in RouteNearbyAnswers : NearbyReturns(AnalyzeSlot, answer)
    \/ \E answers \in RouteAlternativeAnswers : AlternativesReturn(AnalyzeSlot, answers)
    \/ \E answers \in RouteDetailAnswers : DetailsReturn(AnalyzeSlot, answers)
    \/ \E answer \in RouteLLMAnswers : AnalysisReturns(AnalyzeSlot, answer)
    \/ \E outcome \in InsertOutcomes : InsertReturns(AnalyzeSlot, outcome)
    \/ \E id \in GetIds : StartGet(GetSlot, id)
    \/ \E outcome \in {"row", "no row", "error", "throws"} :
          SelectReturns(GetSlot, outcome)

Spec == Init /\ [][Next]_vars

----------------------------------------------------------------------------
(* Specification SpecConcurrent: two handleAnalyze requests and one         *)
(* handleGetAnalysis in flight together, interleaved at their awaits, on a  *)
(* cache that is empty or full.  The upstream answers are kept to one       *)
(* successful pipeline with the local fallback analysis.                    *)

InitConcurrent ==
    /\ \E n \in {0, MAX_CACHE} :
          /\ cache = Filled(n)
          /\ store = StoredOf(n)
          /\ nextId = n + 1
    /\ env = [GOOGLE_MAPS_SERVER_KEY |-> TRUE, OPENAI_API_KEY |-> TRUE]
    /\ req = [s \in Slots |-> Free]
    /\ nAnalyze = [s \in Slots |-> 0]
    /\ nGet = 0
    /\ ScoreIdle
    /\ AltIdle
    /\ CompIdle
    /\ AnalysisIdle

NextConcurrent ==
    \/ \E s \in AnalyzeSlots : StartAnalyze(s, "MG Road, Bangalore", "cafe")
    \/ \E s \in AnalyzeSlots :
          GeocodeReturns(s, [status |-> "OK", results |-> <<[lat |-> 1297, lng |-> 7759]>>])
    \/ \E s \in AnalyzeSlots : NearbyReturns(s, Failed("OVER_QUERY_LIMIT"))
    \/ \E s \in AnalyzeSlots : \E answers \in RouteAlternativeAnswers :
          AlternativesReturn(s, answers)
    \/ \E s \in AnalyzeSlots : DetailsReturn(s, <<>>)
    \/ \E s \in AnalyzeSlots : AnalysisReturns(s, LLMThrows)
    \/ \E s \in AnalyzeSlots : InsertReturns(s, "error")
    \/ \E id \in {1, 2, MAX_CACHE + 1} : StartGet(GetSlot, id)
    \/ \E outcome \in {"row", "no row"} : SelectReturns(GetSlot, outcome)

SpecConcurrent == InitConcurrent /\ [][NextConcurrent]_vars

----------------------------------------------------------------------------
(* Specification SpecPdf: one handleAnalyze and one request to the PDF      *)
(* route in flight together, on a cache that is empty or full.              *)

NextPdf ==
    \/ StartAnalyze(AnalyzeSlot, "MG Road, Bangalore", "cafe")
    \/ GeocodeReturns(AnalyzeSlot,
                      [status |-> "OK", results |-> <<[lat |-> 1297, lng |-> 7759]>>])
    \/ \E answer \in RouteNearbyAnswers : NearbyReturns(AnalyzeSlot, answer)
    \/ \E answers \in RouteAlternativeAnswers : AlternativesReturn(AnalyzeSlot, answers)
    \/ \E answers \in RouteDetailAnswers : DetailsReturn(AnalyzeSlot, answers)
    \/ \E answer \in {LLMThrows, LLMJson(completeJson)} :
          AnalysisReturns(AnalyzeSlot, answer)
    \/ \E outcome \in InsertOutcomes : InsertReturns(AnalyzeSlot, outcome)
    \/ \E id \in GetIds : StartPdf(PdfSlot, id)
    \/ \E outcome \in {"row", "no row", "error", "throws"} :
          PdfSelectReturns(PdfSlot, outcome)

SpecPdf == InitConcurrent /\ [][NextPdf]_vars

----------------------------------------------------------------------------
(* Claims *)

\* C1: findAlternativeLocations returns at most `count` candidates, ordered by
\* score in non-increasing order, whatever the six search points answer.
C1_AtMostCountSortedByScore ==
    altPc = "done" =>
        /\ Len(alternatives) <= count
        /\ \A i \in 1..Len(alternatives) : \A j \in i..Len(alternatives) :
               alternatives[i].score >= alternatives[j].score

\* the result is full and the sort had to move a candidate
C1_Witness ==
    /\ altPc = "done"
    /\ count >= 2
    /\ Len(alternatives) = count
    /\ alternatives[1].score > alternatives[2].score
    /\ alternatives # SearchLoop(searchResults, 1, <<>>, <<>>, count).alternatives

\* C2: calculateLocationScore returns an integer between 0 and 100 for every
\* place.
C2_ScoreInRange ==
    scorePc = "done" => score \in 0..100

\* a place whose unclamped score exceeds 100 is scored 100
C2_Witness ==
    /\ scorePc = "done"
    /\ RawScore(place) > 10000
    /\ score = 100

\* C10: for every rating a place carries, 0 included, the rating contributes
\* exactly (rating - 2.5) * 10 to the score before the final clamp.
C10_RatingContribution ==
    (scorePc = "done" /\ place.rating # undefined) =>
        score = Max(0, Min(100, MathRound(
                    5000 + (place.rating - 25) * 100
                    + ReviewFactor(place) + PriceFactor(place) + TypeFactor(place))))

\* the reference score of a place without a rating, in hundredths before the
\* rounding: 50, the popularity term, the price term P and the type bonus B
ReferenceUnrated(n, priceLevel, tags) ==
    LET popularity == IF n = undefined \/ n = 0 THEN 0
                      ELSE IF n >= 100 THEN 1500 ELSE (n * 1500) \div 100
        P == IF priceLevel \in 0..4 THEN (3 - priceLevel) * 500 ELSE 0
        B == IF \E tag \in tags :
                    tag \in {"restaurant", "cafe", "lodging", "tourist_attraction"}
             THEN 1000 ELSE 0
        rounded == MathRound(5000 + popularity + P + B)
    IN  IF rounded < 0 THEN 0 ELSE IF rounded > 100 THEN 100 ELSE rounded

\* C11: for a place without a rating, calculateLocationScore equals
\* clamp(round(50 + min(n/100, 1) * 15 + P + B), 0, 100) for every review
\* count n (absent, 0, below and above 100), with P = (3 - tier) * 5 for a
\* present price tier 0..4 and B = 10 for a relevant type tag.
C11_UnratedScoreIsReference ==
    (scorePc = "done" /\ place.rating = undefined) =>
        score = ReferenceUnrated(place.user_ratings_total, place.price_level,
                                 place.types)

\* an unrated place with more than 100 reviews and price tier 0: 50 + 15 + 15
C11_Witness ==
    /\ scorePc = "done"
    /\ place.rating = undefined
    /\ place.user_ratings_total > 100
    /\ place.price_level = 0
    /\ place.types = {"store"}
    /\ score = 80

\* what offset point i can contribute: the first two places of an OK answer,
\* up to the first one that cannot be scored
Usable(i) ==
    LET found == IF searchResults[i].status = "OK" THEN searchResults[i].results
                 ELSE <<>>
        scored(k) == Len(found) >= k /\ "types" \in DOMAIN found[k]
    IN  IF ~scored(1) THEN <<>>
        ELSE IF ~scored(2) THEN <<found[1]>>
        ELSE <<found[1], found[2]>>

AllUsable ==
    Usable(1) \o Usable(2) \o Usable(3) \o Usable(4) \o Usable(5) \o Usable(6)

\* how often a place occurs among the first n places of a list
Occurrences(list, n, name) ==
    Cardinality({k \in 1..n : k <= Len(list) /\ list[k].name = name})

\* C16: a failure while fetching or scoring at one offset point does not end
\* the pass: the later points are still queried until `count` candidates are
\* collected, and the candidates returned are the first `count` usable places
\* of all six points; when no point has a usable place the result is empty.
C16_FailingPointIsSkipped ==
    altPc = "done" =>
        /\ Len(queries) < Len(searchPoints) => Len(alternatives) >= count
        /\ Len(alternatives) = (IF Len(AllUsable) < count THEN Len(AllUsable) ELSE count)
        /\ \A name \in {"A", "B", "C", "D"} :
               Occurrences(alternatives, count, name) = Occurrences(AllUsable, count, name)
        /\ AllUsable = <<>> => alternatives = <<>>

\* North fails in transport, South fails while scoring its first place, and
\* a candidate of a later point is returned
C16_Witness ==
    /\ altPc = "done"
    /\ searchResults[1] = Failed("TRANSPORT")
    /\ searchResults[2] = Ok(<<placeD, placeA>>)
    /\ Len(queries) = Len(searchPoints)
    /\ \E i \in 1..Len(alternatives) : alternatives[i].name = "B"

\* the candidates collected when offset point k is about to be queried
RECURSIVE CollectedBefore(_)
CollectedBefore(k) ==
    IF k = 1 THEN 0
    ELSE LET sofar == CollectedBefore(k - 1) + Len(Usable(k - 1))
         IN  IF sofar > count THEN count ELSE sofar

\* C21: the offset points are queried one after another in the order North,
\* South, East, West, Northeast, Southwest, at most two results of a point
\* are taken, at most six queries are issued, and no query is issued once
\* the candidates collected have reached the requested count, count = 0
\* included.
C21_QueriesInOrderUntilCount ==
    altPc = "done" =>
        /\ Len(queries) <= 6
        /\ queries = SubSeq(<<"North", "South", "East", "West", "Northeast",
                              "Southwest">>, 1, Len(queries))
        /\ Len(alternatives) <= 2 * Len(queries)
        /\ \A k \in 1..Len(queries) : CollectedBefore(k) < count

\* the same for a requested count of at least one
C21_Positive ==
    (altPc = "done" /\ count >= 1) => C21_QueriesInOrderUntilCount

\* the places among the first two results of offset point i that have a score
FirstTwo(i) ==
    LET found == IF searchResults[i].status = "OK" THEN searchResults[i].results
                 ELSE <<>>
    IN  SelectSeq(SubSeq(found, 1, IF Len(found) < 2 THEN Len(found) ELSE 2),
                  LAMBDA p : "types" \in DOMAIN p)

AllFirstTwo ==
    FirstTwo(1) \o FirstTwo(2) \o FirstTwo(3) \o FirstTwo(4) \o FirstTwo(5)
        \o FirstTwo(6)

\* C22: the result is the top `count` by score: no candidate among the first
\* two results of the six offset points that is left out of the result has a
\* strictly higher score than a candidate in the result.
C22_TopKByScore ==
    altPc = "done" =>
        \A k \in 1..Len(AllFirstTwo) :
            LET p == AllFirstTwo[k]
            IN  Occurrences(AllFirstTwo, Len(AllFirstTwo), p.name)
                    > Occurrences(alternatives, count, p.name)
                => \A i \in 1..Len(alternatives) :
                       calculateLocationScore(p) <= alternatives[i].score

\* C23: the alternatives are deduplicated: a place that the nearby search
\* returns at two or more offset points appears at most once in the result.
C23_NoPlaceTwice ==
    altPc = "done" =>
        \A i \in 1..Len(alternatives) : \A j \in 1..Len(alternatives) :
            alternatives[i].name = alternatives[j].name => i = j

----------------------------------------------------------------------------
(* Claims about the analyze route *)

AnalyzeDone(r) == r.kind = "analyze" /\ r.pc = "done"
GetDone(r) == r.kind = "get" /\ r.pc = "done"
Has(r, field) == field \in DOMAIN r

IsString(x) == x.t = "string"
IsArray(x) == x.t = "array"

\* summary, four SWOT lists, a metrics object and a recommendation
ValidAnalysis(a) ==
    /\ a.t = "object"
    /\ IsString(Prop(a, "summary"))
    /\ \A list \in {"strengths", "weaknesses", "opportunities", "threats"} :
           IsArray(Prop(a, list))
    /\ Prop(a, "metrics").t = "object"
    /\ IsString(Prop(a, "recommendation"))

\* C3: whatever the text-generation service does, generateLocationAnalysis
\* yields a structurally valid analysis and the request does not end in an
\* error response on account of the analysis.
C3_AnalysisAlwaysValid ==
    \A s \in Slots :
        (req[s].kind = "analyze" /\ Has(req[s], "analysis")) =>
            /\ ValidAnalysis(req[s].analysis)
            /\ ~(req[s].pc = "done" /\ ~Has(req[s], "insert"))

NumericMetrics ==
    {"viabilityScore", "expectedRevenue", "avgRevenue", "tam", "footfall",
     "competitorCount"}

\* C4: in every report analyze returns, each numeric metric is a number,
\* whichever tier produced the analysis.
C4_MetricsAreNumbers ==
    \A s \in Slots :
        (AnalyzeDone(req[s]) /\ req[s].resp.status = 200) =>
            \A m \in NumericMetrics : IsNumber(req[s].resp.body.metrics[m])

\* a request assembles its report and inserts it in this step
Inserts(s) == req[s].pc = "openai" /\ req'[s].pc = "insert"

\* C5: an insert into a cache of MAX_CACHE entries removes exactly the entry
\* inserted earliest and keeps the others followed by the new one; the cache
\* never holds more than MAX_CACHE entries.
C5_FifoEviction ==
    /\ [](Len(cache) <= MAX_CACHE)
    /\ [][\A s \in Slots : (Len(cache) = MAX_CACHE /\ Inserts(s)) =>
             /\ Len(cache') = MAX_CACHE
             /\ SubSeq(cache', 1, MAX_CACHE - 1) = Tail(cache)
             /\ cache'[MAX_CACHE] = [key |-> req'[s].id, value |-> req'[s].report]]_vars

\* the first of MAX_CACHE entries has been evicted by the insert of the next
C5_Witness ==
    /\ Len(cache) = MAX_CACHE
    /\ cache[1].key = 2
    /\ cache[MAX_CACHE].key = MAX_CACHE + 1

\* C6: getAnalysis answers from the cache without querying the store when the
\* id is cached, queries the store only on a cache miss, and answers not
\* found only when the id is in neither the cache nor the store.
C6_CacheFirstThenStore ==
    \A s \in Slots :
        GetDone(req[s]) /\ req[s].id # undefined =>
            /\ req[s].cachedAtStart =>
                   req[s].calls = <<>> /\ req[s].resp.status = 200
            /\ req[s].calls # <<>> => ~req[s].cachedAtStart
            /\ req[s].resp.status = 404 =>
                   ~req[s].inCache /\ ~req[s].inStore

\* the request found the id in neither the cache nor the store
InNeither(r) ==
    /\ GetDone(r) /\ r.id # undefined
    /\ ~r.cachedAtStart
    /\ Has(r, "select") /\ ~r.inCache /\ ~r.inStore

\* C7 as claimed: for an id in neither the cache nor the store the answer is
\* always 404, also when the store query fails or raises.
C7_AlwaysNotFound ==
    \A s \in Slots : InNeither(req[s]) => req[s].resp.status = 404

\* C7 as amended: the answer is 404 whenever the store query returns (no row,
\* or an error result) and 500 "Failed to fetch analysis" exactly when the
\* query raises.
C7_NotFoundUnlessQueryRaises ==
    \A s \in Slots : InNeither(req[s]) =>
        IF req[s].select = "throws"
        THEN req[s].resp = [status |-> 500, body |-> [error |-> "Failed to fetch analysis"]]
        ELSE req[s].resp = [status |-> 404, body |-> [error |-> "Analysis not found"]]

\* an unknown id, a store query that returned an error result, and a 404
C7_Witness ==
    \E s \in Slots :
        /\ InNeither(req[s])
        /\ req[s].select = "error"
        /\ req[s].resp.status = 404

\* C8: once the report is assembled, a failing store write does not turn the
\* request into an error; the caller receives the report.
C8_StoreFailureNeverFails ==
    \A s \in Slots :
        (AnalyzeDone(req[s]) /\ Has(req[s], "report")) =>
            req[s].resp = [status |-> 200, body |-> req[s].report]

\* C9: a failed geocoding ends the request with an error after exactly one
\* geocoder call; no later call is made and neither the cache nor the store
\* receives anything for the request.
C9_GeocodeFailureStopsPipeline ==
    \A s \in Slots :
        (req[s].kind = "analyze" /\ Has(req[s], "geocode") /\ req[s].geocode = "failed") =>
            /\ req[s].pc = "done"
            /\ req[s].resp.status = 500
            /\ req[s].calls = <<"geocode">>
            /\ ~CacheHas(cache, req[s].id)
            /\ Rows(req[s].id) = {}

\* a request whose geocoding found no result
C9_Witness ==
    \E s \in Slots :
        /\ AnalyzeDone(req[s])
        /\ Has(req[s], "geocode") /\ req[s].geocode = "failed"
        /\ req[s].resp.body.message = Tpl(<<"Geocoding failed:", "ZERO_RESULTS">>)

\* the nearby search of the request failed and getNearbyPlaces returned
NearbySearchFailed(r) ==
    r.kind = "analyze" /\ Has(r, "nearbyFailed") /\ r.nearbyFailed

\* C17: when the nearby search answers with a non-OK status or fails in
\* transport, getNearbyPlaces returns the empty list and the request goes on
\* and completes with a successful report whose footfall is 0, whose
\* competitorCount is 0 and whose competitors list is empty.
C17_NearbyFailureStillSucceeds ==
    \A s \in Slots :
        NearbySearchFailed(req[s]) =>
            /\ req[s].nearbyPlaces = <<>>
            /\ req[s].pc = "done" =>
                   /\ req[s].resp.status = 200
                   /\ req[s].resp.body.metrics.footfall = Num(0)
                   /\ req[s].resp.body.metrics.competitorCount = Num(0)
                   /\ req[s].resp.body.competitors = <<>>

\* an analyze request whose body lacks the location or the category
Invalid(r) == r.kind = "analyze" /\ (r.location = "" \/ r.category = "")

\* C18: an analyze request with a missing or empty location or category is
\* answered at once with the validation error 400: no identifier is drawn,
\* no upstream service is called, and the step leaves the cache and the
\* durable store as they were.
C18_InvalidBodyRejectedAtOnce ==
    /\ [](\A s \in Slots : Invalid(req[s]) =>
             /\ req[s].pc = "done"
             /\ req[s].resp =
                    [status |-> 400,
                     body |-> [error |-> "Location and category are required"]]
             /\ req[s].id = undefined
             /\ req[s].calls = <<>>)
    /\ [][\A s \in Slots : (req'[s] # req[s] /\ Invalid(req'[s])) =>
             UNCHANGED <<cache, store, nextId>>]_vars

\* a request without a category was answered 400 while the cache was full
C18_Witness ==
    \E s \in Slots :
        /\ Invalid(req[s])
        /\ req[s].category = ""
        /\ req[s].resp.status = 400
        /\ Len(cache) = MAX_CACHE

\* a getAnalysis request answered with the row of the durable store, for a
\* report of an earlier request that is no longer in the cache
ServedFromStore(r) ==
    /\ GetDone(r) /\ r.id \in 1..MAX_CACHE
    /\ ~r.cachedAtStart
    /\ Has(r, "select") /\ r.select = "row"

\* C19: for a report whose store write succeeded and that has been evicted
\* from the cache, getAnalysis(id) answers from the durable store with the
\* content analyze returned: the same fields, the SWOT lists, the competitors
\* list and the creation timestamp included.
C19_StoreReturnsTheReport ==
    \A s \in Slots :
        ServedFromStore(req[s]) =>
            /\ req[s].resp.status = 200
            /\ req[s].resp.body = earlierReport(req[s].id)

Levels == {Str("Low"), Str("Medium"), Str("High")}

\* the labels the text-mining tier and the fallback tier can produce
RecommendationLabels ==
    {Str("Strong Recommend"), Str("Recommend"), Str("Caution"), Str("Not Recommended")}

\* C20: in every report analyze returns, whichever tier produced the
\* analysis, metrics.viabilityScore is a number in 0..100, competitionLevel
\* and marketSaturation are each Low, Medium or High, and recommendation is
\* one of the recommendation labels.
C20_ReportValuesInRange ==
    \A s \in Slots :
        (AnalyzeDone(req[s]) /\ req[s].resp.status = 200) =>
            LET report == req[s].resp.body
            IN  /\ IsNumber(report.metrics.viabilityScore)
                /\ report.metrics.viabilityScore.n \in 0..100
                /\ report.metrics.competitionLevel \in Levels
                /\ report.metrics.marketSaturation \in Levels
                /\ report.recommendation \in RecommendationLabels

\* a getAnalysis request answered with an entry of the cache
ServedFromCache(r) ==
    /\ GetDone(r) /\ r.resp.status = 200
    /\ r.cachedAtStart \/ (Has(r, "select") /\ r.select # "row")

\* the entry is a whole report for the identifier asked for: it has every
\* field of a report, and it is the report of the analyze request that
\* carries this identifier when that request is still at hand
WholeReport(body, id) ==
    /\ DOMAIN body = DOMAIN earlierReport(id)
    /\ DOMAIN body.metrics = DOMAIN earlierReport(id).metrics
    /\ body.id = id
    /\ body.createdAt = TimeOf(id)
    /\ \A a \in AnalyzeSlots :
           (req[a].kind = "analyze" /\ Has(req[a], "report") /\ req[a].id = id) =>
               body = req[a].report

\* C24: under every interleaving of two analyze requests and a getAnalysis
\* request at their awaits, the cache never holds more than MAX_CACHE
\* entries, an entry read from the cache is a whole report that an analyze
\* request assembled, and the eviction of an insert never removes the entry
\* this insert added.
C24_CacheSafeUnderInterleaving ==
    /\ [](/\ Len(cache) <= MAX_CACHE
          /\ \A s \in Slots :
                 ServedFromCache(req[s]) => WholeReport(req[s].resp.body, req[s].id))
    /\ [][\A s \in Slots : Inserts(s) =>
             /\ CacheHas(cache', req'[s].id)
             /\ CacheGet(cache', req'[s].id) = req'[s].report]_vars

\* both analyze requests have inserted into the full cache, the second slot
\* first, and the getAnalysis request has read the entry of one of them
C24_Witness ==
    /\ Len(cache) = MAX_CACHE
    /\ req["analyze2"].pc = "insert" /\ req["analyze2"].id = MAX_CACHE + 1
    /\ req[AnalyzeSlot].pc = "insert" /\ req[AnalyzeSlot].id = MAX_CACHE + 2
    /\ cache[MAX_CACHE].key = MAX_CACHE + 2
    /\ ServedFromCache(req[GetSlot])
    /\ req[GetSlot].id = MAX_CACHE + 1

\* the entries of the cache that follow entry i: the reports inserted later
LaterReports(c, i) == Len(c) - i

\* C30: each analyze request gets a fresh identifier, so a cache insert never
\* overwrites an entry and a cached report is never modified; a cached
\* report is served by getAnalysis whatever the outcome of its store write,
\* it leaves the cache only with the insert of the MAX_CACHE-th later report,
\* and an identifier that is no longer cached is answered with a report only
\* when its row is in the durable store.
C30_FreshIdsKeepReportsRetrievable ==
    /\ [](\A s \in Slots : GetDone(req[s]) /\ req[s].id # undefined =>
             /\ req[s].cachedAtStart =>
                    /\ req[s].resp.status = 200
                    /\ CacheHas(cache, req[s].id) =>
                           req[s].resp.body = CacheGet(cache, req[s].id)
             /\ (Has(req[s], "select") /\ ~req[s].inCache /\ req[s].resp.status = 200) =>
                    /\ req[s].inStore
                    /\ req[s].resp.body \in Rows(req[s].id))
    /\ [][\A s \in AnalyzeSlots : Inserts(s) =>
             /\ ~CacheHas(cache, req'[s].id)
             /\ \A a \in AnalyzeSlots \ {s} :
                    Has(req[a], "report") => req[a].id # req'[s].id]_vars
    /\ [][\A i \in 1..Len(cache) :
             IF CacheHas(cache', cache[i].key)
             THEN CacheGet(cache', cache[i].key) = cache[i].value
             ELSE /\ LaterReports(cache, i) = MAX_CACHE - 1
                  /\ \E s \in AnalyzeSlots : Inserts(s)]_vars

\* a report whose store write returned an error has been returned by analyze
\* and read from the cache by getAnalysis
C30_Witness ==
    /\ GetDone(req[GetSlot]) /\ req[GetSlot].cachedAtStart
    /\ req[GetSlot].resp.status = 200
    /\ \E a \in AnalyzeSlots :
           /\ AnalyzeDone(req[a]) /\ req[a].id = req[GetSlot].id
           /\ req[a].insert = "error"
           /\ req[a].resp.body = req[GetSlot].resp.body

\* the second oldest report, never stored, has been evicted by two inserts
\* and getAnalysis answers not found for it
C30_EvictedUnstoredNotFound ==
    /\ GetDone(req[GetSlot]) /\ req[GetSlot].id = 2
    /\ Len(cache) = MAX_CACHE /\ cache[1].key = 3
    /\ req[GetSlot].resp.status = 404

PdfDone(r) == r.kind = "pdf" /\ r.pc = "done"

\* C27: the PDF route uses the cache of the analyze route: a PDF request for
\* an identifier whose report analyze holds in its cache, and whose row is
\* not in the durable store, is served that report and is not answered
\* 'Analysis not found'.
C27_PdfServedFromAnalyzeCache ==
    (/\ PdfDone(req[PdfSlot])
     /\ Has(req[PdfSlot], "select")
     /\ req[PdfSlot].select \in {"error", "no row"}
     /\ req[PdfSlot].inCache
     /\ ~req[PdfSlot].inStore) =>
        /\ req[PdfSlot].resp.status = 200
        /\ req[PdfSlot].resp.body = [pdf |-> CacheGet(cache, req[PdfSlot].id)]

\* C29: an analyze request that ends with an error response leaves no report
\* behind: the identifier carried in the error response is in neither the
\* cache nor the durable store, whichever step of the pipeline failed.
C29_ErrorLeavesNoReport ==
    \A s \in AnalyzeSlots :
        (AnalyzeDone(req[s]) /\ req[s].resp.status = 500) =>
            /\ ~CacheHas(cache, req[s].resp.body.id)
            /\ Rows(req[s].resp.body.id) = {}

\* the same for the failures before the report is assembled
C29_EarlyErrorLeavesNoReport ==
    \A s \in AnalyzeSlots :
        (AnalyzeDone(req[s]) /\ req[s].resp.status = 500 /\ ~Has(req[s], "report")) =>
            /\ ~CacheHas(cache, req[s].resp.body.id)
            /\ Rows(req[s].resp.body.id) = {}

\* the insert into the durable store has been requested and has not settled
StoreWritePending(r) == r.kind = "analyze" /\ r.pc = "insert"

\* C26: the durable-store write does not block the response: while the write
\* of an analyze request is still outstanding the caller already has the
\* report, so a write that never completes cannot keep the report back.
C26_ResponseDoesNotWaitForStore ==
    \A s \in AnalyzeSlots :
        StoreWritePending(req[s]) =>
            /\ "resp" \in DOMAIN req[s]
            /\ req[s].resp = [status |-> 200, body |-> req[s].report]

\* the tier an analysis comes from, read off the analysis: the text-mining
\* tier and the local fallback each write a summary of their own
MinedSummary ==
    Tpl(<<"Analysis for", gathered.category, "location at", gathered.location>>)

FallbackSummary ==
    Tpl(<<"Location analysis for", gathered.category, gathered.location,
          Len(gathered.competitors), Len(gathered.nearbyPlaces)>>)

\* C25: exactly one tier produces the analysis: the strict-JSON result iff
\* the service answered with a non-empty body that parses as JSON, the
\* text-mined one iff it answered with a non-empty body that does not parse,
\* the local fallback iff the call threw or returned an empty body; a later
\* tier is not used when an earlier one succeeded.
C25_OneTierByPriority ==
    analysisPc = "done" =>
        /\ llmAnswer.kind = "json" <=> AnalysisTier(llmAnswer) = "strict"
        /\ llmAnswer.kind = "text" <=> AnalysisTier(llmAnswer) = "text-mined"
        /\ llmAnswer.kind \in {"throws", "empty"} <=> AnalysisTier(llmAnswer) = "fallback"
        /\ llmAnswer.kind = "json" => analysisOut = llmAnswer.json
        /\ llmAnswer.kind = "text" =>
               /\ analysisOut.o.summary = MinedSummary
               /\ analysisOut.o.metrics.o.viabilityScore =
                      (IF llmAnswer.text.score = undefined THEN Num(75)
                       ELSE Num(llmAnswer.text.score))
        /\ llmAnswer.kind \in {"throws", "empty"} =>
               /\ analysisOut.o.summary = FallbackSummary
               /\ analysisOut.o.metrics.o.viabilityScore.n >= 30

\* a prose answer: the text-mining tier produced the analysis
C25_Witness ==
    /\ analysisPc = "done"
    /\ llmAnswer = LLMText(richText)
    /\ analysisOut.o.summary = MinedSummary
    /\ analysisOut.o.recommendation = Str("Recommend")

\* the report handleAnalyze assembles from the nearby places and the profiles
\* built from them, the text-generation service being down
builtRequest ==
    [kind |-> "analyze", location |-> "MG Road, Bangalore", category |-> "cafe",
     coordinates |-> [lat |-> 1297, lng |-> 7759], nearbyPlaces |-> nearbyList,
     footfallEstimate |-> footfallOf(nearbyList), alternatives |-> <<>>,
     competitors |-> profiles]

builtReport ==
    assembleReport(1, builtRequest,
                   generateFallbackAnalysis("MG Road, Bangalore", "cafe", builtRequest))

\* the review counts of the first n nearby places added up
RECURSIVE ReviewsUpTo(_)
ReviewsUpTo(n) ==
    IF n = 0 THEN 0
    ELSE ReviewsUpTo(n - 1) +
         (IF nearbyList[n].user_ratings_total \in {undefined, null} THEN 0
          ELSE nearbyList[n].user_ratings_total)

\* C28: in every report of analyze, metrics.competitorCount is the number of
\* profiles in the report's competitors list and metrics.footfall is the sum
\* of the review counts of all the nearby places (a missing count is 0),
\* for every number of nearby places.
C28_CountAndFootfallMatchReport ==
    compPc = "done" =>
        /\ builtReport.metrics.competitorCount = Num(Len(builtReport.competitors))
        /\ builtReport.metrics.footfall = Num(ReviewsUpTo(Len(nearbyList)))

\* the footfall half alone
C28_FootfallIsSumOfReviews ==
    compPc = "done" =>
        builtReport.metrics.footfall = Num(ReviewsUpTo(Len(nearbyList)))

\* the table of the helper, written out
PriceTable(t) ==
    IF t = 1 THEN 400 ELSE IF t = 2 THEN 800 ELSE IF t = 3 THEN 1500
    ELSE IF t = 4 THEN 2500 ELSE null

\* C12: calculateAveragePrice maps tier 1 to 400, 2 to 800, 3 to 1500 and 4
\* to 2500 and gives null, never 0, for a null, absent or zero tier and for
\* any tier outside 1..4; the average_price_for_2 of every competitor profile
\* is that function of the price tier the same profile shows.
C12_AveragePriceFollowsTier ==
    /\ compPc = "priced" =>
           averagePrice = PriceTable(priceTier) /\ averagePrice # 0
    /\ compPc = "done" =>
           \A i \in 1..Len(profiles) :
               /\ profiles[i].average_price_for_2 = PriceTable(profiles[i].price_level)
               /\ profiles[i].average_price_for_2 # 0

\* a list whose profiles show tier 0, a tier of the table taken from the
\* details, and a tier beyond the table
C12_Witness ==
    /\ compPc = "done"
    /\ \E i, j, k \in 1..Len(profiles) :
           /\ profiles[i].price_level = 0 /\ profiles[i].average_price_for_2 = null
           /\ profiles[j].price_level = 5 /\ profiles[j].average_price_for_2 = null
           /\ profiles[k].price_level = 3 /\ profiles[k].average_price_for_2 = 1500
           /\ topNearbyOf(nearbyList)[k].price_level # 3

\* the text-generation call failed and the fallback analysis was returned
FallbackDone == analysisPc = "done" /\ llmAnswer = LLMThrows

\* C13: when the text-generation call fails, the fallback analysis has
\* viabilityScore = max(30, 85 - 5c + min(2n, 20)) and competitionLevel High
\* for c > 5, Medium for c > 2, else Low, for every number c of competitors
\* and n of nearby places; c = 0, n = 0 gives 85, c = 20 gives 30, and c = 3,
\* n = 3 gives Medium and 76.
C13_FallbackScoreAndLevel ==
    FallbackDone =>
        LET c == Len(gathered.competitors)
            n == Len(gathered.nearbyPlaces)
            capped == IF 2 * n > 20 THEN 20 ELSE 2 * n
            raw == 85 - 5 * c + capped
            metrics == analysisOut.o.metrics.o
        IN  /\ metrics.viabilityScore = Num(IF raw < 30 THEN 30 ELSE raw)
            /\ metrics.competitionLevel =
                   Str(IF c > 5 THEN "High" ELSE IF c > 2 THEN "Medium" ELSE "Low")
            /\ (c = 0 /\ n = 0) => metrics.viabilityScore = Num(85)
            /\ c = 20 => metrics.viabilityScore = Num(30)
            /\ (c = 3 /\ n = 3) =>
                   /\ metrics.viabilityScore = Num(76)
                   /\ metrics.competitionLevel = Str("Medium")

\* twenty competitors: the raw score 85 - 100 + 20 is lifted to the floor
C13_Witness ==
    /\ FallbackDone
    /\ Len(gathered.competitors) = 20
    /\ Len(gathered.nearbyPlaces) > 10
    /\ analysisOut.o.metrics.o.viabilityScore = Num(30)
    /\ analysisOut.o.metrics.o.competitionLevel = Str("High")

\* the places the builder selected, and the ones it left out
Selected == {topNearbyOf(nearbyList)[i] : i \in 1..Len(topNearbyOf(nearbyList))}
LeftOut == {nearbyList[i] : i \in 1..Len(nearbyList)} \ Selected

\* exactly min(10, number of nearby places) profiles, made of the places with
\* the highest review counts, a missing count being 0
C14_TopTenSelected ==
    compPc = "done" =>
        /\ Len(profiles) = (IF Len(nearbyList) < 10 THEN Len(nearbyList) ELSE 10)
        /\ Cardinality(Selected) = Len(profiles)
        /\ \A p \in Selected : \A q \in LeftOut :
               ReviewsOrZero(p) >= ReviewsOrZero(q)

\* C14: the competitors list has exactly min(10, number of nearby places)
\* profiles, they are the nearby places with the highest review counts, and
\* the list is in non-increasing order of the review count each returned
\* profile shows, also when the details lookup returns another count.
C14_TopTenOrderedByShownReviews ==
    /\ C14_TopTenSelected
    /\ compPc = "done" =>
           \A i \in 1..Len(profiles) : \A j \in i..Len(profiles) :
               profiles[i].user_ratings_total >= profiles[j].user_ratings_total

\* the lookup of a selected place failed
LookupFailed(p) == p.place_id # "" /\ lookups[p.place_id].status # "OK"

\* the profile carries the nearby-search fields of the place and no contact
ShowsBasicFields(profile, p) ==
    /\ profile.name = (IF p.name = "" THEN "Unknown" ELSE p.name)
    /\ profile.address = p.vicinity
    /\ profile.rating = p.rating
    /\ profile.user_ratings_total =
           (IF p.user_ratings_total = undefined THEN 0 ELSE p.user_ratings_total)
    /\ profile.price_level =
           (IF p.price_level = undefined THEN null ELSE p.price_level)
    /\ profile.website = Null
    /\ profile.phone = Null

\* the profile carries what the details lookup returned, and the
\* nearby-search field where the details have none
ShowsEnrichedFields(profile, p, details) ==
    /\ profile.name =
           (IF details.name # "" THEN details.name
            ELSE IF p.name = "" THEN "Unknown" ELSE p.name)
    /\ profile.address = details.formatted_address
    /\ profile.rating = details.rating
    /\ profile.user_ratings_total =
           (IF details.user_ratings_total # undefined THEN details.user_ratings_total
            ELSE IF p.user_ratings_total = undefined THEN 0 ELSE p.user_ratings_total)
    /\ profile.price_level =
           (IF details.price_level # undefined THEN details.price_level
            ELSE IF p.price_level = undefined THEN null ELSE p.price_level)

\* C15: whichever subset of the details lookups fails, the builder returns
\* one profile per selected place, in the order of the selection: a place
\* whose lookup failed gets its nearby-search fields with website and phone
\* null, every other place with a place_id gets the enriched fields, and the
\* builder itself never fails.
C15_LookupFailureFallsBackPerPlace ==
    compPc = "done" =>
        LET top == topNearbyOf(nearbyList)
        IN  /\ Len(profiles) = Len(top)
            /\ \A i \in 1..Len(top) :
                   IF LookupFailed(top[i]) \/ top[i].place_id = ""
                   THEN ShowsBasicFields(profiles[i], top[i])
                   ELSE ShowsEnrichedFields(profiles[i], top[i],
                                            lookups[top[i].place_id].result)

\* ten selected places; the second lookup failed, the first and third did not
C15_Witness ==
    /\ compPc = "done"
    /\ Len(profiles) = 10
    /\ LET top == topNearbyOf(nearbyList)
       IN  /\ ~LookupFailed(top[1]) /\ top[1].place_id # ""
           /\ profiles[1].name = "Cafe"
           /\ LookupFailed(top[2])
           /\ profiles[2].name = top[2].name
           /\ ~LookupFailed(top[3]) /\ top[3].place_id # ""

====
